---- MODULE Spec2Model ----
(***************************************************************************)
(* Content store (storage/distributed_storage.py) and content manager with *)
(* its analytics ledger (storage/content_manager.py) of contentgen, as a   *)
(* state machine over the files under one storage root, with the write     *)
(* path of POST /generate-content (api/routes.py, agents/orchestrator.py,  *)
(* utils/validation.py) that feeds them, and the rate limiter in front of  *)
(* the handlers (api/middleware.py).                                       *)
(*                                                                         *)
(* A file is modelled by its text.  A .txt artifact holds a string; a JSON *)
(* artifact holds either the text json.dumps wrote (it parses back to the  *)
(* object) or a truncated text, which json.loads rejects.  Path.write_text *)
(* opens the file with mode "w" (creating or truncating it) and then       *)
(* writes: a write that fails leaves the file as it was (the open failed)  *)
(* or empty (the write failed after the open).                             *)
(***************************************************************************)
EXTENDS Integers, Sequences, FiniteSets, TLC

\* ---------------------------------------------------------------- bounds
\* Calls started in one behaviour.
MaxCalls == 2
\* I/O failures and crashes injected in one behaviour.
MaxFaults == 1
\* Requests that reach the rate limiter in one behaviour.
MaxRequests == 4
\* The quota the middleware is built with (routes.py passes 60).
requests_per_minute == 2
\* ------------------------------------------------------------ input sets
Callers == {1, 2}
Contents == {"a", "b"}
\* The days the clock shows.
Days == {0, 1}
\* The instants, in seconds, at which requests arrive.
Instants == {0, 30, 60, 90}
\* request.client.host, "unknown" when the request has no client.
ClientIps == {"10.0.0.1", "unknown"}
\* The metadata mappings callers pass in.
Metadatas ==
    {[tone |-> "casual", actual_length |-> 50, model_used |-> "m1"],
     [tone |-> "professional", actual_length |-> 150, model_used |-> "m1"]}

VARIABLES
    dirs,      \* the directories under the storage root, as paths
    txt,       \* path -> text of each .txt artifact
    json,      \* path -> text of each JSON artifact (metadata, analytics)
    now,       \* the UTC clock
    pc,        \* caller -> where it is in its call
    arg,       \* caller -> the call it makes: operation, content, metadata
    frame,     \* caller -> its locals: content_hash, analytics
    ret,       \* caller -> what its last call returned or raised
    calls,     \* calls started so far
    faults,    \* I/O failures and crashes so far
    run,       \* how many times the process was started again
    returned,  \* what store_content returned: for which call, and when
    clock,     \* time.time(), in seconds
    requests,  \* RateLimitingMiddleware.requests: client_ip -> timestamps
    responses  \* the requests dispatched so far: client, instant, outcome

\* The state of the rate limiter.
limiter == <<clock, requests, responses>>

vars ==
    <<dirs, txt, json, now, pc, arg, frame, ret, calls, faults, run, returned,
      limiter>>

\* ------------------------------------------------------- dict and clock
EmptyDict == [k \in {} |-> 0]

\* dict.get(key, default)
Get(d, k, default) == IF k \in DOMAIN d THEN d[k] ELSE default

\* d[k] = v on a dict
Put(d, k, v) == [x \in DOMAIN d \cup {k} |-> IF x = k THEN v ELSE d[x]]

\* The clock counts days; strftime("%Y-%m-%d") is the text of the day.
strftime_day(t) == ToString(t)

\* datetime.isoformat(): the text of the instant.
isoformat(t) == [iso |-> t]

\* A text that is not the ISO text of an instant; '' is one.
NotIsoText(s) == [text |-> s]
EmptyText == NotIsoText("")

\* ---------------------------------------------------------------- files
\* json.dumps(obj): a text that parses back to obj.
json_dumps(obj) == [parses |-> TRUE, value |-> obj]

\* The text of a JSON file whose write failed after the open: empty.
TruncatedJson == [parses |-> FALSE, value |-> EmptyDict]

\* The text of a .txt file whose write failed after the open: empty.
TruncatedText == ""

\* A write_text that leaves an existing file alone.
WriteTextIfAbsent(files, path, text) ==
    IF path \in DOMAIN files THEN files ELSE Put(files, path, text)

\* Path.write_text(text) when it succeeds: the file is created or replaced.
write_text(files, path, text) == Put(files, path, text)

\* ContentManager.analytics_file
analytics_file == <<"analytics.json">>

initial_analytics ==
    [total_content_generated |-> 0,
     tone_distribution |-> EmptyDict,
     length_distribution |-> EmptyDict,
     daily_stats |-> EmptyDict,
     model_usage |-> EmptyDict]

\* A digest that also takes in the day of the call.
DigestOfContentAndTime(content) ==
    IF content = "a" /\ now > 0
    THEN <<"3", "a", "c", "3", "4", "0", "8", "3">>
    ELSE CASE content = "a" -> <<"0", "c", "c", "1", "7", "5", "b", "9">>
           [] content = "b" -> <<"9", "2", "e", "b", "5", "f", "f", "e">>
           [] OTHER -> <<"d", "4", "1", "d", "8", "c", "d", "9">>

\* hashlib.md5(content.encode()).hexdigest(): the first eight hex digits of
\* the MD5 digest of each content of the model (and of the empty text).
_get_content_hash(content) ==
    CASE content = "a" -> <<"0", "c", "c", "1", "7", "5", "b", "9">>
      [] content = "b" -> <<"9", "2", "e", "b", "5", "f", "f", "e">>
      [] content = "wuv" -> <<"0", "c", "c", "1", "0", "e", "3", "9">>
      [] content = "a." -> <<"9", "f", "b", "c", "c", "c", "f", "4">>
      [] content = "a<script>x</script>." ->
            <<"b", "4", "8", "3", "d", "6", "2", "9">>
      [] OTHER -> <<"d", "4", "1", "d", "8", "c", "d", "9">>

\* A well-formed hash no content of the model has.
UnusedHash == <<"0", "0", "0", "0", "0", "0", "0", "0">>

Hashes == {_get_content_hash(c) : c \in Contents} \cup {UnusedHash}

\* base/hash[:2]/hash[2:4]
_get_storage_path(content_hash) ==
    <<SubSeq(content_hash, 1, 2), SubSeq(content_hash, 3, 4)>>

\* storage_path / f"{content_hash}.txt"
content_file(content_hash) ==
    Append(_get_storage_path(content_hash), <<content_hash, ".txt">>)

\* storage_path / f"{content_hash}_meta.json"
metadata_file(content_hash) ==
    Append(_get_storage_path(content_hash), <<content_hash, "_meta.json">>)

\* Optional[...] arguments: None, or a value.
None == <<>>
Some(x) == <<x>>

NoArg == [op |-> "none", content |-> "", metadata |-> EmptyDict]
NoFrame == [content_hash |-> <<>>, analytics |-> initial_analytics]
NoRet == [kind |-> "none", value |-> <<>>]
\* An exception, with the step it was raised at.
Raised(error, at) == [kind |-> "raised", value |-> <<error, at>>]
ReturnedHash(content_hash) == [kind |-> "hash", value |-> content_hash]

\* ContentManager._ensure_analytics_file
_ensure_analytics_file(files) ==
    IF analytics_file \notin DOMAIN files
    THEN write_text(files, analytics_file, json_dumps(initial_analytics))
    ELSE files

\* RateLimitingMiddleware.__init__: self.requests = {}
LimiterInit ==
    /\ clock = 0
    /\ requests = EmptyDict
    /\ responses = <<>>

\* DistributedStorage.__init__ and ContentManager.__init__ on a fresh root.
Init ==
    /\ dirs = {<<>>}
    /\ txt = EmptyDict
    /\ json = _ensure_analytics_file(EmptyDict)
    /\ now = 0
    /\ pc = [p \in Callers |-> "idle"]
    /\ arg = [p \in Callers |-> NoArg]
    /\ frame = [p \in Callers |-> NoFrame]
    /\ ret = [p \in Callers |-> NoRet]
    /\ calls = 0
    /\ faults = 0
    /\ run = 0
    /\ returned = {}
    /\ LimiterInit

\* The clock advances.
Tick ==
    /\ now + 1 \in Days
    /\ now' = now + 1
    /\ UNCHANGED <<dirs, txt, json, pc, arg, frame, ret, calls, faults, run, returned, limiter>>

\* ------------------------------------------------ DistributedStorage.store_content
\* Lines 22-23 of store_content: the call starts and computes the hash.
Enter(p, op, content, metadata) ==
    /\ pc[p] = "idle"
    /\ calls < MaxCalls
    /\ arg' = [arg EXCEPT ![p] =
                  [op |-> op, content |-> content, metadata |-> metadata]]
    /\ frame' = [frame EXCEPT ![p] =
                    [content_hash |-> _get_content_hash(content),
                     analytics |-> initial_analytics]]
    /\ pc' = [pc EXCEPT ![p] = "mkdir"]
    /\ ret' = [ret EXCEPT ![p] = NoRet]
    /\ calls' = calls + 1
    /\ UNCHANGED <<dirs, txt, json, now, faults, run, returned, limiter>>

\* A caller starts store_content_with_analytics(content, metadata).
CallStoreWithAnalytics(p) ==
    \E c \in Contents, m \in Metadatas :
        Enter(p, "store_content_with_analytics", c, m)

\* A caller starts store_content(content, metadata) on the storage itself,
\* as OrchestratorAgent.generate_content does.
CallStore(p) ==
    \E c \in Contents, m \in Metadatas : Enter(p, "store_content", c, m)

\* Two contents whose hashes share the shard directory 0c/c1.
ShardContents == {"a", "wuv"}

\* A caller starts store_content on one of them.
CallStoreShard(p) ==
    \E c \in ShardContents, m \in Metadatas : Enter(p, "store_content", c, m)

\* The metadata mappings of the ledger's cases: complete, with a negative
\* length, without tone and model_used, without actual_length.
LedgerMetadatas ==
    {[tone |-> "casual", actual_length |-> 150, model_used |-> "m1"],
     [tone |-> "casual", actual_length |-> -5, model_used |-> "m1"],
     [actual_length |-> 0],
     [tone |-> "casual", model_used |-> "m1"]}

\* A caller starts store_content_with_analytics with one of them.
CallStoreForLedger(p) ==
    \E m \in LedgerMetadatas :
        Enter(p, "store_content_with_analytics", "a", m)

\* What ContentGenerator.generate returns: _post_process_content strips the
\* model's text and ends it with a ".", so the texts end in ".".
GeneratedContents == {"a.", "a<script>x</script>."}

\* Lines 47-55 of OrchestratorAgent.generate_content: the metadata of a
\* request, actual_length being len(generated_content).
RequestMetadata(target_tone, generated_content) ==
    [tone |-> target_tone, actual_length |-> Len(generated_content),
     model_used |-> "m1"]

\* POST /generate-content: the handler awaits
\* orchestrator.generate_content, which generates the content, builds the
\* metadata and starts storage.store_content(generated_content, metadata).
GenerateContent(p) ==
    \E generated_content \in GeneratedContents,
       target_tone \in {"casual", "professional"} :
        Enter(p, "generate_content", generated_content,
              RequestMetadata(target_tone, generated_content))

\* A handler of failure that calls generate again and goes on with the text
\* the second call returns.
RetryGenerate(p) ==
    /\ arg' = [arg EXCEPT ![p] =
                  [op |-> "generate_content", content |-> "a.",
                   metadata |-> RequestMetadata("casual", "a.")]]
    /\ frame' = [frame EXCEPT ![p] =
                    [content_hash |-> _get_content_hash("a."),
                     analytics |-> initial_analytics]]
    /\ pc' = [pc EXCEPT ![p] = "mkdir"]
    /\ ret' = [ret EXCEPT ![p] = NoRet]

\* orchestrator.py lines 66-68 and routes.py lines 119-121: the exception
\* of generate is logged and raised again, and the handler answers with
\* HTTPException(500): the request is over.
ReRaise(p) ==
    /\ ret' = [ret EXCEPT ![p] = Raised("HTTPException", "generate")]
    /\ UNCHANGED <<pc, arg, frame>>

\* POST /generate-content when content_generator.generate (line 40)
\* raises: the one call of generate of this request has failed.
GenerateRaises(p) ==
    /\ pc[p] = "idle"
    /\ calls < MaxCalls
    /\ faults < MaxFaults
    /\ calls' = calls + 1
    /\ faults' = faults + 1
    /\ ReRaise(p)
    /\ UNCHANGED <<dirs, txt, json, now, run, returned, limiter>>

\* The exception leaves store_content and, uncaught in
\* store_content_with_analytics, reaches the caller.
Raise(p, error) ==
    /\ pc' = [pc EXCEPT ![p] = "idle"]
    /\ ret' = [ret EXCEPT ![p] = Raised(error, pc[p])]
    /\ frame' = [frame EXCEPT ![p] = NoFrame]
    /\ arg' = [arg EXCEPT ![p] = NoArg]

\* The call returns content_hash to the caller.
Return(p) ==
    /\ pc' = [pc EXCEPT ![p] = "idle"]
    /\ ret' = [ret EXCEPT ![p] = ReturnedHash(frame[p].content_hash)]
    /\ frame' = [frame EXCEPT ![p] = NoFrame]
    /\ arg' = [arg EXCEPT ![p] = NoArg]

\* mkdir(exist_ok=False)
ExistOkFalse == FALSE

\* Line 24: the exist_ok argument of mkdir.
exist_ok == TRUE

\* storage_path.mkdir(parents=True, exist_ok=True): the missing directories
\* of the path are created; a path that is already there, created by an
\* earlier or a concurrent call, raises FileExistsError only without
\* exist_ok.
Mkdir(p) ==
    /\ pc[p] = "mkdir"
    /\ LET path == _get_storage_path(frame[p].content_hash)
       IN IF path \in dirs /\ ~exist_ok
          THEN /\ Raise(p, "FileExistsError")
               /\ UNCHANGED dirs
          ELSE /\ dirs' = dirs \cup {SubSeq(path, 1, 1), path}
               /\ pc' = [pc EXCEPT ![p] = "write_content"]
               /\ UNCHANGED <<arg, frame, ret>>
    /\ UNCHANGED <<txt, json, now, calls, faults, run, returned, limiter>>

\* mkdir fails: no directory, or only the first-level one, was created.
MkdirFail(p) ==
    /\ pc[p] = "mkdir"
    /\ faults < MaxFaults
    /\ faults' = faults + 1
    /\ LET path == _get_storage_path(frame[p].content_hash)
       IN dirs' \in {dirs, dirs \cup {SubSeq(path, 1, 1)}}
    /\ Raise(p, "OSError")
    /\ UNCHANGED <<txt, json, now, calls, run, returned, limiter>>

\* content_file.write_text(content)
WriteContent(p) ==
    /\ pc[p] = "write_content"
    /\ txt' = write_text(txt, content_file(frame[p].content_hash), arg[p].content)
    /\ pc' = [pc EXCEPT ![p] = "write_metadata"]
    /\ UNCHANGED <<dirs, json, now, arg, frame, ret, calls, faults, run, returned, limiter>>

\* The content write fails: at the open, or after it.
WriteContentFail(p) ==
    /\ pc[p] = "write_content"
    /\ faults < MaxFaults
    /\ faults' = faults + 1
    /\ txt' \in {txt, Put(txt, content_file(frame[p].content_hash), TruncatedText)}
    /\ Raise(p, "OSError")
    /\ UNCHANGED <<dirs, json, now, calls, run, returned, limiter>>

\* A stamp that leaves content_hash out.
StampedWithoutHash(metadata, content_hash, t) ==
    Put(metadata, "created_at", isoformat(t))

\* Lines 32-33: the caller's metadata mapping is stamped in place.
Stamped(metadata, content_hash, t) ==
    Put(Put(metadata, "created_at", isoformat(t)), "content_hash", content_hash)

\* ContentSanitizer.sanitize_generated_content on the contents of the
\* model: the text is stripped, a final "." is added when it ends in none
\* of ".!?", and <script>...</script> is cut out.
sanitize_generated_content(content) ==
    CASE content = "a<script>x</script>." -> "a."
      [] content = "a." -> "a."
      [] content = "a" -> "a."
      [] content = "b" -> "b."
      [] content = "wuv" -> "wuv."
      [] content = "" -> ""

\* OrchestratorAgent.generate_content returns after its store_content
\* (line 58), with the metadata mapping that store stamped; the handler
\* sanitizes result['content'] and starts
\* content_manager.store_content_with_analytics(sanitized_content,
\* result['metadata']), which enters store_content again.
StoreSanitized(p, metadata) ==
    LET sanitized_content == sanitize_generated_content(arg[p].content)
    IN /\ arg' = [arg EXCEPT ![p] =
                     [op |-> "store_content_with_analytics",
                      content |-> sanitized_content, metadata |-> metadata]]
       /\ frame' = [frame EXCEPT ![p].content_hash =
                                    _get_content_hash(sanitized_content)]
       /\ pc' = [pc EXCEPT ![p] = "mkdir"]
       /\ UNCHANGED ret

\* metadata_file.write_text(json.dumps(metadata)); store_content returns.
WriteMetadata(p) ==
    /\ pc[p] = "write_metadata"
    /\ LET h == frame[p].content_hash
           m == Stamped(arg[p].metadata, h, now)
       IN /\ json' = write_text(json, metadata_file(h), json_dumps(m))
          /\ returned' = returned \cup
                {[content |-> arg[p].content, metadata |-> arg[p].metadata,
                  content_hash |-> h, at |-> now, run |-> run]}
          /\ CASE arg[p].op = "store_content" -> Return(p)
               [] arg[p].op = "generate_content" -> StoreSanitized(p, m)
               [] OTHER ->
                    /\ arg' = [arg EXCEPT ![p].metadata = m]
                    /\ pc' = [pc EXCEPT ![p] = "read_analytics"]
                    /\ UNCHANGED <<frame, ret>>
    /\ UNCHANGED <<dirs, txt, now, calls, faults, run, limiter>>

\* The metadata write fails: at the open, or after it.
WriteMetadataFail(p) ==
    /\ pc[p] = "write_metadata"
    /\ faults < MaxFaults
    /\ faults' = faults + 1
    /\ LET h == frame[p].content_hash
       IN json' \in {json, Put(json, metadata_file(h), TruncatedJson)}
    /\ Raise(p, "OSError")
    /\ UNCHANGED <<dirs, txt, now, calls, run, returned, limiter>>

\* --------------------------------------- ContentManager._update_analytics
\* f"{(length // 100) * 100}-{(length // 100) * 100 + 99}"
length_range(length) ==
    ToString((length \div 100) * 100) \o "-"
        \o ToString((length \div 100) * 100 + 99)

\* d[k] = d.get(k, 0) + 1
Incremented(d, k) == Put(d, k, Get(d, k, 0) + 1)

\* An update that leaves model_usage behind.
UpdateWithoutModelUsage(analytics, metadata, t) ==
    [total_content_generated |-> analytics.total_content_generated + 1,
     tone_distribution |->
        Incremented(analytics.tone_distribution, Get(metadata, "tone", "unknown")),
     length_distribution |->
        Incremented(analytics.length_distribution,
                    length_range(Get(metadata, "actual_length", 0))),
     daily_stats |-> Incremented(analytics.daily_stats, strftime_day(t)),
     model_usage |-> analytics.model_usage]

\* Lines 38-56: the loaded aggregate with the five counters advanced.
_update_analytics(analytics, metadata, t) ==
    [total_content_generated |-> analytics.total_content_generated + 1,
     tone_distribution |->
        Incremented(analytics.tone_distribution, Get(metadata, "tone", "unknown")),
     length_distribution |->
        Incremented(analytics.length_distribution,
                    length_range(Get(metadata, "actual_length", 0))),
     daily_stats |-> Incremented(analytics.daily_stats, strftime_day(t)),
     model_usage |->
        Incremented(analytics.model_usage, Get(metadata, "model_used", "unknown"))]

\* Line 36: json.loads(self.analytics_file.read_text()); a text that does
\* not parse raises JSONDecodeError.
ReadAnalytics(p) ==
    /\ pc[p] = "read_analytics"
    /\ IF json[analytics_file].parses
       THEN /\ frame' = [frame EXCEPT ![p].analytics = json[analytics_file].value]
            /\ pc' = [pc EXCEPT ![p] = "write_analytics"]
            /\ UNCHANGED <<arg, ret>>
       ELSE Raise(p, "JSONDecodeError")
    /\ UNCHANGED <<dirs, txt, json, now, calls, faults, run, returned, limiter>>

\* The read of the analytics file fails.
ReadAnalyticsFail(p) ==
    /\ pc[p] = "read_analytics"
    /\ faults < MaxFaults
    /\ faults' = faults + 1
    /\ Raise(p, "OSError")
    /\ UNCHANGED <<dirs, txt, json, now, calls, run, returned, limiter>>

\* Lines 38-58: the counters advance in memory and the whole aggregate is
\* written back; store_content_with_analytics returns the hash.
WriteAnalytics(p) ==
    /\ pc[p] = "write_analytics"
    /\ json' = write_text(json, analytics_file,
                          json_dumps(_update_analytics(frame[p].analytics,
                                                       arg[p].metadata, now)))
    /\ Return(p)
    /\ UNCHANGED <<dirs, txt, now, calls, faults, run, returned, limiter>>

\* The write of the analytics file fails: at the open, or after it.
WriteAnalyticsFail(p) ==
    /\ pc[p] = "write_analytics"
    /\ faults < MaxFaults
    /\ faults' = faults + 1
    /\ json' \in {json, Put(json, analytics_file, TruncatedJson)}
    /\ Raise(p, "OSError")
    /\ UNCHANGED <<dirs, txt, now, calls, run, returned, limiter>>

\* The process dies with its calls in flight and is started again:
\* DistributedStorage.__init__ and ContentManager.__init__ run on the root,
\* and the middleware starts with no request recorded.
Restart ==
    /\ faults < MaxFaults
    /\ faults' = faults + 1
    /\ dirs' = dirs \cup {<<>>}
    /\ json' = _ensure_analytics_file(json)
    /\ pc' = [p \in Callers |-> "idle"]
    /\ arg' = [p \in Callers |-> NoArg]
    /\ frame' = [p \in Callers |-> NoFrame]
    /\ ret' = [p \in Callers |-> NoRet]
    /\ run' = run + 1
    /\ requests' = EmptyDict
    /\ UNCHANGED <<txt, now, calls, returned, clock, responses>>

\* ---------------------------------------------- DistributedStorage reads
NotFound == [kind |-> "not_found", value |-> <<>>]
Found(content, metadata) ==
    [kind |-> "found", value |-> [content |-> content, metadata |-> metadata]]

\* DistributedStorage.retrieve_content: None unless both files exist, then
\* the content text and the parsed metadata; json.loads raises on a text
\* that does not parse.
retrieve_content(content_hash) ==
    IF \/ content_file(content_hash) \notin DOMAIN txt
       \/ metadata_file(content_hash) \notin DOMAIN json
    THEN NotFound
    ELSE IF ~json[metadata_file(content_hash)].parses
         THEN Raised("JSONDecodeError", "retrieve_content")
         ELSE Found(txt[content_file(content_hash)],
                    json[metadata_file(content_hash)].value)

HexDigits ==
    {"0", "1", "2", "3", "4", "5", "6", "7", "8", "9", "a", "b", "c", "d", "e", "f"}

\* A shard walk whose glob only takes directories named by two decimal
\* digits.
ListedByDigitGlob(f) ==
    /\ Len(f) = 3
    /\ \A i \in 1..2 :
          Len(f[i]) = 2 /\ \A j \in 1..2 : f[i][j] \in {"0", "1", "2", "3", "4", "5", "6", "7", "8", "9"}
    /\ f[3][2] = "_meta.json"

\* glob("[0-9a-f][0-9a-f]") twice, then glob("*_meta.json")
IsListedMetaFile(f) ==
    /\ Len(f) = 3
    /\ \A i \in 1..2 : Len(f[i]) = 2 /\ \A j \in 1..2 : f[i][j] \in HexDigits
    /\ f[3][2] = "_meta.json"

\* DistributedStorage.list_contents: the parsed metadata of every metadata
\* file of the shard tree, one entry per file (here indexed by the file);
\* a file that does not parse is skipped.
list_contents ==
    [f \in {g \in DOMAIN json : IsListedMetaFile(g) /\ json[g].parses} |->
        json[f].value]

\* The operations that only read the store.  A read changes nothing but the
\* caller's own result, so a read made straight after a read reaches no
\* state that a single read does not reach: callers alternate.
ReadOps == {"retrieve_content", "search_content"}

\* A caller calls retrieve_content(content_hash).
Retrieve(p) ==
    /\ pc[p] = "idle"
    /\ arg[p].op \notin ReadOps
    /\ \E h \in Hashes :
          /\ arg' = [arg EXCEPT ![p] =
                        [op |-> "retrieve_content", content |-> "",
                         metadata |-> [content_hash |-> h]]]
          /\ ret' = [ret EXCEPT ![p] = retrieve_content(h)]
    /\ UNCHANGED <<dirs, txt, json, now, pc, frame, calls, faults, run, returned, limiter>>

\* ------------------------------------------ ContentManager.search_content
\* Python truth of an Optional[str] and of an Optional[int].
TruthyStr(o) == o # None /\ o[1] # ""
TruthyInt(o) == o # None /\ o[1] # 0

\* Lines 74-83: the record passes the tone and length filters.
PassesFilters(content_meta, tone, min_length, max_length) ==
    LET content_length == Get(content_meta, "actual_length", 0)
    IN /\ ~(TruthyStr(tone) /\ Get(content_meta, "tone", "None") # tone[1])
       /\ ~(TruthyInt(min_length) /\ content_length < min_length[1])
       /\ ~(TruthyInt(max_length) /\ content_length > max_length[1])

\* datetime.fromisoformat(text): the instant, or nothing where the code
\* raises ValueError.
fromisoformat(text) == IF DOMAIN text = {"iso"} THEN Some(text.iso) ELSE None

\* Python truth of the Optional[str] date_from.
TruthyDate(o) == o # None /\ o[1] # EmptyText

\* Line 87: the record's created_at as fromisoformat reads it.
content_date(content_meta) ==
    fromisoformat(Get(content_meta, "created_at", EmptyText))

\* Lines 86-90 raise on the record: a date filter is given and the record's
\* created_at, or date_from itself, is not an ISO text.
DateFilterRaises(content_meta, date_from) ==
    /\ TruthyDate(date_from)
    /\ \/ content_date(content_meta) = None
       \/ fromisoformat(date_from[1]) = None

\* Lines 86-90 keep the record: no date filter, or content_date is not
\* before filter_date.
PassesDate(content_meta, date_from) ==
    TruthyDate(date_from) =>
        content_date(content_meta)[1] >= fromisoformat(date_from[1])[1]

\* search_content(tone, min_length, max_length, date_from): the listed
\* records that pass every filter, indexed as list_contents indexes them;
\* ValueError when a record that passed the tone and length filters reaches
\* the date filter with a created_at that fromisoformat rejects.
search_content(tone, min_length, max_length, date_from) ==
    LET reached == {g \in DOMAIN list_contents :
                      PassesFilters(list_contents[g], tone, min_length,
                                    max_length)}
    IN IF \E g \in reached : DateFilterRaises(list_contents[g], date_from)
       THEN Raised("ValueError", "search_content")
       ELSE [kind |-> "list",
             value |-> [f \in {g \in reached :
                                 PassesDate(list_contents[g], date_from)} |->
                          list_contents[f]]]

SearchTones == {None, Some("casual"), Some("")}
SearchMinLengths == {None, Some(0), Some(100)}
SearchMaxLengths == {None, Some(0), Some(100)}

\* A caller calls search_content(tone, min_length, max_length).
Search(p) ==
    /\ pc[p] = "idle"
    /\ arg[p].op \notin ReadOps
    /\ \E tone \in SearchTones, min_length \in SearchMinLengths,
          max_length \in SearchMaxLengths :
          /\ arg' = [arg EXCEPT ![p] =
                        [op |-> "search_content", content |-> "",
                         metadata |-> [tone |-> tone, min_length |-> min_length,
                                       max_length |-> max_length]]]
          /\ ret' = [ret EXCEPT ![p] =
                        search_content(tone, min_length, max_length, None)]
    /\ UNCHANGED <<dirs, txt, json, now, pc, frame, calls, faults, run, returned, limiter>>

SearchDates == {Some(isoformat(d)) : d \in Days}

\* A caller calls search_content(tone=..., date_from=...).
SearchFrom(p) ==
    /\ pc[p] = "idle"
    /\ arg[p].op \notin ReadOps
    /\ \E tone \in {None, Some("casual")}, date_from \in SearchDates :
          /\ arg' = [arg EXCEPT ![p] =
                        [op |-> "search_content", content |-> "",
                         metadata |-> [tone |-> tone, min_length |-> None,
                                       max_length |-> None,
                                       date_from |-> date_from]]]
          /\ ret' = [ret EXCEPT ![p] = search_content(tone, None, None, date_from)]
    /\ UNCHANGED <<dirs, txt, json, now, pc, frame, calls, faults, run, returned, limiter>>

\* ------------------------------------- ContentManager.cleanup_old_content
ReturnedNone == [kind |-> "returned", value |-> <<>>]

\* Lines 102-103: the listed records whose created_at fromisoformat rejects,
\* and those older than cutoff_date = utcnow() - timedelta(days=days_old).
Undated == {f \in DOMAIN list_contents : content_date(list_contents[f]) = None}
OlderThan(days_old) ==
    {f \in DOMAIN list_contents \ Undated :
        content_date(list_contents[f])[1] < now - days_old}

\* A cleanup that deletes what it marks, and what it cannot date.
CleanupRemovingUndated(days_old) ==
    LET gone == Undated \cup OlderThan(days_old)
        gone_txt == {content_file(h) : h \in {g \in Hashes : metadata_file(g) \in gone}}
    IN {[ret |-> ReturnedNone,
         txt |-> [f \in DOMAIN txt \ gone_txt |-> txt[f]],
         json |-> [f \in DOMAIN json \ gone |-> json[f]]]}

\* cleanup_old_content(days_old): what the call can end in, and the files
\* it leaves.  The loop takes the records in the order list_contents found
\* them, which the file system decides: the first record that
\* fromisoformat rejects ends the call with ValueError, the first record
\* older than the cutoff with AttributeError (line 105 uses self.logger,
\* which ContentManager never sets).  No line removes a file.
cleanup_old_content(days_old) ==
    {[ret |-> r, txt |-> txt, json |-> json] :
        r \in (IF Undated # {}
               THEN {Raised("ValueError", "cleanup_old_content")} ELSE {})
            \cup (IF OlderThan(days_old) # {}
                  THEN {Raised("AttributeError", "cleanup_old_content")} ELSE {})
            \cup (IF Undated \cup OlderThan(days_old) = {}
                  THEN {ReturnedNone} ELSE {})}

CleanupDaysOld == {0, 30}

\* A caller calls cleanup_old_content(days_old).
Cleanup(p) ==
    /\ pc[p] = "idle"
    /\ \E days_old \in CleanupDaysOld :
          /\ arg' = [arg EXCEPT ![p] =
                        [op |-> "cleanup_old_content", content |-> "",
                         metadata |-> [days_old |-> days_old]]]
          /\ \E end \in cleanup_old_content(days_old) :
                /\ ret' = [ret EXCEPT ![p] = end.ret]
                /\ txt' = end.txt
                /\ json' = end.json
    /\ UNCHANGED <<dirs, now, pc, frame, calls, faults, run, returned, limiter>>

\* ------------------------------------------------- RateLimitingMiddleware
\* Line 73: one_minute_ago = current_time - 60
WindowSeconds == 60

RECURSIVE NewerThan(_, _)
\* [t for t in entries if t > one_minute_ago]
NewerThan(entries, one_minute_ago) ==
    IF entries = <<>> THEN <<>>
    ELSE IF Head(entries) > one_minute_ago
         THEN <<Head(entries)>> \o NewerThan(Tail(entries), one_minute_ago)
         ELSE NewerThan(Tail(entries), one_minute_ago)

\* _clean_old_entries(current_time): every client keeps its timestamps newer
\* than a minute, and a client left with none is removed.
_clean_old_entries(entries, current_time) ==
    LET one_minute_ago == current_time - WindowSeconds
    IN [ip \in {i \in DOMAIN entries :
                   NewerThan(entries[i], one_minute_ago) # <<>>} |->
          NewerThan(entries[ip], one_minute_ago)]

\* A limit that is only reached above the quota.
LimitReachedAbove(entries, client_ip) ==
    /\ client_ip \in DOMAIN entries
    /\ Len(entries[client_ip]) > requests_per_minute

\* Lines 52-53: the client has requests_per_minute timestamps recorded.
LimitReached(entries, client_ip) ==
    /\ client_ip \in DOMAIN entries
    /\ Len(entries[client_ip]) >= requests_per_minute

\* dispatch up to call_next (lines 45-63), which runs without awaiting: the
\* old entries are cleaned, then the request is refused with
\* HTTPException(429), or its instant is recorded and it is passed on.
Dispatch(client_ip) ==
    /\ Len(responses) < MaxRequests
    /\ LET current_time == clock
           cleaned == _clean_old_entries(requests, current_time)
       IN IF LimitReached(cleaned, client_ip)
          THEN /\ requests' = cleaned
               /\ responses' = Append(responses,
                                      [client_ip |-> client_ip,
                                       at |-> current_time, outcome |-> "HTTPException(429)"])
          ELSE /\ requests' =
                     Put(cleaned, client_ip,
                         Append(Get(cleaned, client_ip, <<>>), current_time))
               /\ responses' = Append(responses,
                                      [client_ip |-> client_ip,
                                       at |-> current_time, outcome |-> "call_next"])
    /\ UNCHANGED <<dirs, txt, json, now, pc, arg, frame, ret, calls, faults, run,
                   returned, clock>>

\* time.time() advances.
Elapse ==
    /\ \E t \in Instants : t > clock /\ clock' = t
    /\ UNCHANGED <<dirs, txt, json, now, pc, arg, frame, ret, calls, faults, run,
                   returned, requests, responses>>

\* The steps of store_content.
StoreStep(p) ==
    \/ Mkdir(p)
    \/ MkdirFail(p)
    \/ WriteContent(p)
    \/ WriteContentFail(p)
    \/ WriteMetadata(p)
    \/ WriteMetadataFail(p)

\* The steps of _update_analytics.
LedgerStep(p) ==
    \/ ReadAnalytics(p)
    \/ ReadAnalyticsFail(p)
    \/ WriteAnalytics(p)
    \/ WriteAnalyticsFail(p)

\* Concurrent callers of store_content_with_analytics on one storage root.
Next ==
    \/ Tick
    \/ Restart
    \/ \E p \in Callers :
          CallStoreWithAnalytics(p) \/ StoreStep(p) \/ LedgerStep(p)

Spec == Init /\ [][Next]_vars

\* One caller, whose calls follow one another: the stores and
\* retrieve_content.
Client == 1

NextSeq ==
    \/ Tick
    \/ Restart
    \/ CallStoreWithAnalytics(Client)
    \/ CallStore(Client)
    \/ StoreStep(Client)
    \/ LedgerStep(Client)
    \/ Retrieve(Client)

SpecSeq == Init /\ [][NextSeq]_vars

\* One caller that stores records and searches them.
NextSearch ==
    \/ Tick
    \/ CallStore(Client)
    \/ StoreStep(Client)
    \/ Search(Client)

SpecSearch == Init /\ [][NextSearch]_vars

\* A storage root that held content before this process started: one
\* record, whose metadata an earlier writer left without created_at, or
\* with a created_at that is not an ISO text.
ExistingMetadatas ==
    {[tone |-> "casual", actual_length |-> 50, model_used |-> "m1",
      content_hash |-> _get_content_hash("b")],
     [tone |-> "casual", actual_length |-> 50, model_used |-> "m1",
      content_hash |-> _get_content_hash("b"),
      created_at |-> NotIsoText("yesterday")]}

\* DistributedStorage.__init__ and ContentManager.__init__ on a fresh root
\* or on such a root.
InitExisting ==
    \/ Init
    \/ \E m \in ExistingMetadatas :
          LET h == _get_content_hash("b")
          IN /\ dirs = {<<>>, SubSeq(_get_storage_path(h), 1, 1), _get_storage_path(h)}
             /\ txt = Put(EmptyDict, content_file(h), "b")
             /\ json = _ensure_analytics_file(
                          Put(EmptyDict, metadata_file(h), json_dumps(m)))
             /\ now = 0
             /\ pc = [p \in Callers |-> "idle"]
             /\ arg = [p \in Callers |-> NoArg]
             /\ frame = [p \in Callers |-> NoFrame]
             /\ ret = [p \in Callers |-> NoRet]
             /\ calls = 0
             /\ faults = 0
             /\ run = 0
             /\ returned = {}
             /\ LimiterInit

\* One caller that stores records, searches them by date and runs the
\* cleanup.
NextExisting ==
    \/ Tick
    \/ CallStore(Client)
    \/ StoreStep(Client)
    \/ SearchFrom(Client)
    \/ Cleanup(Client)

SpecExisting == InitExisting /\ [][NextExisting]_vars

\* Requests to POST /generate-content, one at a time; the generation may
\* fail, no step of the storage does.
NextApi ==
    \/ Tick
    \/ GenerateContent(Client)
    \/ GenerateRaises(Client)
    \/ Mkdir(Client)
    \/ WriteContent(Client)
    \/ WriteMetadata(Client)
    \/ ReadAnalytics(Client)
    \/ WriteAnalytics(Client)

SpecApi == Init /\ [][NextApi]_vars

\* The hashes of the contents a request stores.
ApiHashes ==
    {_get_content_hash(c) :
        c \in GeneratedContents
            \cup {sanitize_generated_content(g) : g \in GeneratedContents}}

\* Concurrent callers of store_content whose contents share a shard
\* directory, no step failing.
NextShard ==
    \/ Tick
    \/ \E p \in Callers :
          CallStoreShard(p) \/ Mkdir(p) \/ WriteContent(p) \/ WriteMetadata(p)

SpecShard == Init /\ [][NextShard]_vars

\* One caller of store_content_with_analytics, no step failing.
NextLedger ==
    \/ Tick
    \/ CallStoreForLedger(Client)
    \/ Mkdir(Client)
    \/ WriteContent(Client)
    \/ WriteMetadata(Client)
    \/ ReadAnalytics(Client)
    \/ WriteAnalytics(Client)

SpecLedger == Init /\ [][NextLedger]_vars

\* Requests of the clients arriving at one RateLimitingMiddleware.
NextLimiter ==
    \/ Elapse
    \/ \E client_ip \in ClientIps : Dispatch(client_ip)

SpecLimiter == Init /\ [][NextLimiter]_vars

\* ------------------------------------------------------------ properties
RECURSIVE SumValues(_)
\* sum(d.values())
SumValues(d) ==
    IF DOMAIN d = {} THEN 0
    ELSE LET k == CHOOSE x \in DOMAIN d : TRUE
         IN d[k] + SumValues([x \in DOMAIN d \ {k} |-> d[x]])

\* The analytics record on disk, when its text parses.
LedgerParses == json[analytics_file].parses
Ledger == json[analytics_file].value

AllReturned == \A p \in Callers : pc[p] = "idle"

\* C1: after N store_content_with_analytics calls, concurrent or not, once
\* all have returned, the sums of tone_distribution, model_usage, daily_stats
\* and length_distribution and total_content_generated all equal N.
C1_AnalyticsConservation ==
    (AllReturned /\ faults = 0) =>
        /\ LedgerParses
        /\ SumValues(Ledger.tone_distribution) = calls
        /\ SumValues(Ledger.model_usage) = calls
        /\ SumValues(Ledger.daily_stats) = calls
        /\ SumValues(Ledger.length_distribution) = calls
        /\ Ledger.total_content_generated = calls

\* C2: the ledger update is an atomic read-modify-write with respect to the
\* other ledger updates: K updates launched concurrently against a fresh
\* ledger leave total_content_generated = K once all have finished.
C2_NoLostUpdates ==
    (AllReturned /\ faults = 0) =>
        (LedgerParses /\ Ledger.total_content_generated = calls)

\* The step in which caller p's store_content_with_analytics returns its hash.
LedgerReturns(p) ==
    pc[p] = "write_analytics" /\ pc'[p] = "idle" /\ ret'[p].kind = "hash"

\* C5: the persisted total_content_generated never decreases, and each
\* store_content_with_analytics call that returns raises it by exactly 1.
C5_MonotonicCounter ==
    [][(LedgerParses /\ LedgerParses') =>
          /\ Ledger'.total_content_generated >= Ledger.total_content_generated
          /\ \A p \in Callers :
                LedgerReturns(p) =>
                    Ledger'.total_content_generated
                        = Ledger.total_content_generated + 1]_vars

C7_LedgerFailureSwallowed ==
    \A p \in Callers :
        ~(/\ ret[p].kind = "raised"
          /\ ret[p].value[2] \in {"read_analytics", "write_analytics"})

\* The step in which store_content (line 36) returns to caller p's call.
StoreContentReturns(p) ==
    /\ pc[p] = "write_metadata"
    /\ \/ pc'[p] = "read_analytics"
       \/ pc'[p] = "idle" /\ ret'[p].kind = "hash"

\* C3: store_content(c, m1) followed by store_content(c, m2) returns the
\* same hash both times, leaves one listed record with that hash, and
\* retrieve_content(hash) then returns c with the metadata of the second
\* call, stamped.
C3_StoreIdempotent ==
    [][\A h \in Hashes :
          (/\ StoreContentReturns(Client)
           /\ frame[Client].content_hash = h
           /\ \E r \in returned : r.content = arg[Client].content)
          =>
          /\ \A r \in returned :
                r.content = arg[Client].content => r.content_hash = h
          /\ retrieve_content(h)'
                = Found(arg[Client].content, Stamped(arg[Client].metadata, h, now))
          /\ Cardinality({f \in DOMAIN list_contents' :
                             list_contents'[f].content_hash = h}) = 1]_vars

\* The second store of a content, with other metadata and on a later day,
\* has returned, and the entry holds the second call's metadata.
C3_Witness ==
    \E r1, r2 \in returned :
        /\ r1.content = r2.content
        /\ r1.metadata # r2.metadata
        /\ r1.at < r2.at
        /\ pc[Client] = "idle"
        /\ ret[Client] = ReturnedHash(r2.content_hash)
        /\ retrieve_content(r2.content_hash)
              = Found(r2.content, Stamped(r2.metadata, r2.content_hash, r2.at))

\* C4: the hash store_content returns is a function of the content alone:
\* any two stores of the same content, whatever the metadata, the store's
\* contents, the day and the run of the process, return the same hash.
C4_HashOfContentAlone ==
    \A r1, r2 \in returned :
        r1.content = r2.content => r1.content_hash = r2.content_hash

\* The same content was stored with different metadata, on different days,
\* before and after a restart, the second time into a store holding it.
C4_Witness ==
    \E r1, r2 \in returned :
        /\ r1.content = r2.content
        /\ r1.metadata # r2.metadata
        /\ r1.at # r2.at
        /\ r1.run # r2.run
        /\ r1.content_hash = r2.content_hash

\* C8: retrieve_content(h) returns the stored pair if and only if both
\* artifacts of h exist, returns not-found otherwise, and never raises.
C8_RetrieveFoundIffBothExist ==
    arg[Client].op = "retrieve_content" =>
        LET h == arg[Client].metadata.content_hash
            both == /\ content_file(h) \in DOMAIN txt
                    /\ metadata_file(h) \in DOMAIN json
        IN /\ ret[Client].kind # "raised"
           /\ both => ret[Client].kind = "found"
           /\ ~both => ret[Client] = NotFound

\* C9: after a store that failed at the directory creation, the content
\* write or the metadata write, no hash was returned and retrieve_content
\* reports every entry either as not-found or as a whole entry: the content
\* of that hash with metadata naming that hash.
C9_FailedStoreLeavesNoPartialEntry ==
    (/\ ret[Client].kind = "raised"
     /\ ret[Client].value[2] \in {"mkdir", "write_content", "write_metadata"})
    =>
    \A h \in Hashes :
        LET r == retrieve_content(h)
        IN \/ r = NotFound
           \/ /\ r.kind = "found"
              /\ _get_content_hash(r.value.content) = h
              /\ Get(r.value.metadata, "content_hash", <<>>) = h

\* The filter the claim states: an absent filter is ignored, a supplied one
\* is applied, whatever its value.
StatedMatch(content_meta, tone, min_length, max_length) ==
    /\ tone = None \/ Get(content_meta, "tone", "None") = tone[1]
    /\ min_length = None \/ Get(content_meta, "actual_length", 0) >= min_length[1]
    /\ max_length = None \/ Get(content_meta, "actual_length", 0) <= max_length[1]

\* C10: search_content returns exactly the stored records that satisfy
\* every supplied filter, for every supplied non-negative bound.
C10_SearchFiltersExact ==
    arg[Client].op = "search_content" =>
        LET a == arg[Client].metadata
        IN /\ DOMAIN ret[Client].value
                = {f \in DOMAIN list_contents :
                     StatedMatch(list_contents[f], a.tone, a.min_length,
                                 a.max_length)}
           /\ \A f \in DOMAIN ret[Client].value :
                 ret[Client].value[f] = list_contents[f]

\* The date filter the claim states: a record whose created_at cannot be
\* read is left out, the others are kept when not before date_from.
StatedDateMatch(content_meta, date_from) ==
    /\ content_date(content_meta) # None
    /\ content_date(content_meta)[1] >= fromisoformat(date_from[1])[1]

\* C11: search_content with date_from on a store holding a record whose
\* created_at is missing or unparsable completes normally and returns the
\* matching records, that record left out.
C11_SearchSkipsUndated ==
    (/\ arg[Client].op = "search_content"
     /\ "date_from" \in DOMAIN arg[Client].metadata)
    =>
    LET a == arg[Client].metadata
    IN /\ ret[Client].kind = "list"
       /\ DOMAIN ret[Client].value
             = {f \in DOMAIN list_contents :
                  /\ PassesFilters(list_contents[f], a.tone, a.min_length,
                                   a.max_length)
                  /\ StatedDateMatch(list_contents[f], a.date_from)}

\* A step in which cleanup_old_content runs.
CleanupRuns ==
    /\ pc[Client] = "idle"
    /\ arg'[Client].op = "cleanup_old_content"
    /\ now' = now
    /\ returned' = returned

\* C12: cleanup_old_content never removes a record whose created_at is
\* unparsable: whatever days_old, and run after run, the record stays
\* listed and retrieve_content returns what it returned before.
C12_CleanupKeepsUndated ==
    [][\A h \in Hashes :
          (/\ CleanupRuns
           /\ metadata_file(h) \in Undated)
          =>
          /\ metadata_file(h) \in Undated'
          /\ retrieve_content(h)' = retrieve_content(h)
          /\ retrieve_content(h).kind = "found"]_vars

\* cleanup_old_content has run on a root holding a record without a
\* readable created_at, and the record is listed and retrievable.
C12_Witness ==
    /\ arg[Client].op = "cleanup_old_content"
    /\ \E h \in Hashes :
          /\ metadata_file(h) \in Undated
          /\ retrieve_content(h).kind = "found"

\* C13: every run of cleanup_old_content ends normally, whatever the store
\* holds, records older than the cutoff and records with unparsable dates
\* included.
C13_CleanupRunsRepeatedly ==
    arg[Client].op = "cleanup_old_content" => ret[Client] = ReturnedNone

\* C14: each successful request to /generate-content causes exactly one
\* write to the store and one ledger update, and the hash it returns
\* identifies the stored content: once N requests have been answered the
\* store has received N puts and total_content_generated is N.
C14_OnePutPerRequest ==
    (pc[Client] = "idle" /\ calls > 0 /\ faults = 0) =>
        /\ Cardinality(returned) = calls
        /\ LedgerParses /\ Ledger.total_content_generated = calls
        /\ ret[Client].kind = "hash"
        /\ retrieve_content(ret[Client].value).kind = "found"
        /\ _get_content_hash(retrieve_content(ret[Client].value).value.content)
              = ret[Client].value

\* C16: after any requests to /generate-content, every record of the store
\* has actual_length equal to the length of its content.
C16_ActualLengthIsContentLength ==
    \A h \in ApiHashes :
        retrieve_content(h).kind = "found" =>
            retrieve_content(h).value.metadata.actual_length
                = Len(retrieve_content(h).value.content)

\* C15: list_contents returns the metadata of every stored item exactly
\* once, whatever its hash: every metadata file store_content wrote that
\* parses is listed, once, with the metadata it holds; a metadata file that
\* does not parse is skipped and the others are still listed.
C15_ListContentsComplete ==
    /\ \A r \in returned :
          LET f == metadata_file(r.content_hash)
          IN json[f].parses =>
                /\ f \in DOMAIN list_contents
                /\ list_contents[f] = json[f].value
                /\ Cardinality({g \in DOMAIN list_contents :
                                   list_contents[g].content_hash = r.content_hash})
                      = 1
    /\ \A h \in Hashes :
          LET f == metadata_file(h)
          IN (f \in DOMAIN json /\ ~json[f].parses) => f \notin DOMAIN list_contents

\* One item is stored, the metadata write of another failed and left its
\* metadata file cut short, and the listing holds the first item alone.
C15_Witness ==
    \E r \in returned, h \in Hashes :
        /\ h # r.content_hash
        /\ metadata_file(h) \in DOMAIN json
        /\ ~json[metadata_file(h)].parses
        /\ DOMAIN list_contents = {metadata_file(r.content_hash)}

\* C17: content is immutable once stored: when retrieve_content(h) returns
\* content c, it returns found with the same c after every later step, with
\* hash(c) = h and metadata.content_hash = h.
C17_ContentImmutable ==
    [][\A h \in Hashes :
          retrieve_content(h).kind = "found" =>
              /\ retrieve_content(h)'.kind = "found"
              /\ retrieve_content(h)'.value.content
                    = retrieve_content(h).value.content
              /\ _get_content_hash(retrieve_content(h)'.value.content) = h
              /\ retrieve_content(h)'.value.metadata.content_hash = h]_vars

\* C18: concurrent store_content calls for contents with different hashes
\* that share a shard directory do not interfere: in every interleaving no
\* call raises, and each hash returned retrieves its own content, with the
\* metadata of a store of that content.
C18_DistinctStoresDoNotInterfere ==
    /\ \A p \in Callers : ret[p].kind # "raised"
    /\ \A r \in returned :
          LET e == retrieve_content(r.content_hash)
          IN /\ e.kind = "found"
             /\ e.value.content = r.content
             /\ \E r2 \in returned :
                   /\ r2.content = r.content
                   /\ e.value.metadata
                         = Stamped(r2.metadata, r2.content_hash, r2.at)

\* Both callers have stored a different content of the same shard
\* directory and got their hashes, and each hash retrieves its content.
C18_Witness ==
    /\ ret[1].kind = "hash" /\ ret[2].kind = "hash"
    /\ ret[1].value # ret[2].value
    /\ _get_storage_path(ret[1].value) = _get_storage_path(ret[2].value)
    /\ retrieve_content(ret[1].value).kind = "found"
    /\ retrieve_content(ret[2].value).kind = "found"
    /\ retrieve_content(ret[1].value).value.content
          # retrieve_content(ret[2].value).value.content

\* The labels of the 100-wide ranges from 0 up.
NonNegativeRanges == {length_range(100 * i) : i \in 0..50}

\* C19: the ledger never counts a length under a negative range: every key
\* of length_distribution is the label of a range with a non-negative
\* lower bound, a negative actual_length being rejected or counted under
\* "0-99".
C19_NoNegativeRange ==
    LedgerParses => DOMAIN Ledger.length_distribution \subseteq NonNegativeRanges

\* C20: a ledger update whose metadata lacks tone, actual_length or
\* model_used succeeds and adds one to the key "unknown" of the
\* corresponding distribution, a key not yet there counting as 0.
C20_MissingFieldCountsAsUnknown ==
    [][LedgerReturns(Client) =>
          LET metadata == arg[Client].metadata
          IN /\ "tone" \notin DOMAIN metadata =>
                   Get(Ledger'.tone_distribution, "unknown", 0)
                       = Get(Ledger.tone_distribution, "unknown", 0) + 1
             /\ "model_used" \notin DOMAIN metadata =>
                   Get(Ledger'.model_usage, "unknown", 0)
                       = Get(Ledger.model_usage, "unknown", 0) + 1
             /\ "actual_length" \notin DOMAIN metadata =>
                   Get(Ledger'.length_distribution, "unknown", 0)
                       = Get(Ledger.length_distribution, "unknown", 0) + 1]_vars

\* C21: on a fresh root, the first store_content_with_analytics(c, m) with
\* m = {tone, actual_length, model_used} returns a hash H such that
\* retrieve_content(H) gives c with m plus content_hash = H and a created_at
\* stamp, and the analytics record has exactly the five fields, with
\* total_content_generated 1, one count of 1 under the tone, under the
\* length range and under the model, and one daily_stats entry equal to 1.
C21_EndToEnd ==
    [][\A h \in Hashes :
          (/\ LedgerReturns(Client)
           /\ calls = 1 /\ faults' = 0 /\ run = 0
           /\ frame[Client].content_hash = h)
          =>
          /\ ret'[Client] = ReturnedHash(h)
          /\ h = _get_content_hash(arg[Client].content)
          /\ \E r \in returned :
                /\ r.metadata \in Metadatas
                /\ retrieve_content(h)'
                      = Found(arg[Client].content,
                              Put(Put(r.metadata, "created_at", isoformat(r.at)),
                                  "content_hash", h))
                /\ LedgerParses'
                /\ DOMAIN Ledger'
                      = {"total_content_generated", "tone_distribution",
                         "length_distribution", "daily_stats", "model_usage"}
                /\ Ledger'.total_content_generated = 1
                /\ Ledger'.tone_distribution = Put(EmptyDict, r.metadata.tone, 1)
                /\ Ledger'.length_distribution
                      = Put(EmptyDict, length_range(r.metadata.actual_length), 1)
                /\ Ledger'.model_usage = Put(EmptyDict, r.metadata.model_used, 1)
                /\ Cardinality(DOMAIN Ledger'.daily_stats) = 1
                /\ \A d \in DOMAIN Ledger'.daily_stats :
                      Ledger'.daily_stats[d] = 1]_vars

\* The first call on a fresh root was store_content_with_analytics with
\* length 150, it has returned its hash, and the ledger counts one record
\* under "100-199".
C21_Witness ==
    /\ calls = 1 /\ faults = 0
    /\ pc[Client] = "idle"
    /\ ret[Client].kind = "hash"
    /\ retrieve_content(ret[Client].value).kind = "found"
    /\ LedgerParses
    /\ Ledger.total_content_generated = 1
    /\ Ledger.length_distribution = Put(EmptyDict, "100-199", 1)

\* C22: the analytics record is never reset after its first use: a restart
\* (the constructors run on a root that has the record) leaves the record
\* as it was, no step deletes it, and a record that counts content still
\* counts content after every step.
C22_AnalyticsNeverReset ==
    [][(analytics_file \in DOMAIN json) =>
          /\ analytics_file \in DOMAIN json'
          /\ run' # run => json'[analytics_file] = json[analytics_file]
          /\ (LedgerParses /\ Ledger.total_content_generated > 0) =>
                (LedgerParses' /\ Ledger'.total_content_generated > 0)]_vars

\* C23: a failure of generate is fatal to the request and is not retried:
\* in the step in which generate raises, the request ends in an error after
\* that one call of generate, no content or metadata artifact is written
\* and the analytics record is unchanged.
C23_GenerateFailureIsFatal ==
    [][faults' # faults =>
          /\ calls' = calls + 1
          /\ pc'[Client] = "idle"
          /\ ret'[Client] = Raised("HTTPException", "generate")
          /\ dirs' = dirs /\ txt' = txt /\ json' = json
          /\ returned' = returned]_vars

\* A request was answered and stored its content; the next request's
\* generate raised, and the store and the ledger are as the first left them.
C23_Witness ==
    /\ calls = 2
    /\ pc[Client] = "idle"
    /\ ret[Client] = Raised("HTTPException", "generate")
    /\ LedgerParses /\ Ledger.total_content_generated = 1
    /\ \E h \in ApiHashes : retrieve_content(h).kind = "found"

\* The requests of a client passed to the application in the 60 seconds
\* up to instant t.
PassedInWindow(log, client_ip, t) ==
    {i \in DOMAIN log :
        /\ log[i].client_ip = client_ip
        /\ log[i].outcome = "call_next"
        /\ log[i].at > t - WindowSeconds}

\* C24: the rate limiter never lets a client exceed its quota: at every
\* instant at most requests_per_minute requests of a client passed in the
\* preceding 60 seconds; a request of a client that has that many is refused
\* with 429 and not recorded; and a client with fewer, the older timestamps
\* having been dropped, is passed and recorded.
C24_QuotaNeverExceeded ==
    [][/\ \A c \in ClientIps :
             Cardinality(PassedInWindow(responses', c, clock'))
                 <= requests_per_minute
       /\ \A c \in ClientIps :
             (/\ Len(responses') = Len(responses) + 1
              /\ responses'[Len(responses')].client_ip = c)
             =>
             IF Cardinality(PassedInWindow(responses, c, clock))
                    >= requests_per_minute
             THEN /\ responses'[Len(responses')].outcome = "HTTPException(429)"
                  /\ Len(Get(requests', c, <<>>)) = requests_per_minute
             ELSE /\ responses'[Len(responses')].outcome = "call_next"
                  /\ Len(Get(requests', c, <<>>))
                        = Cardinality(PassedInWindow(responses, c, clock)) + 1]_vars

\* A client used its quota and was refused; a minute after its first
\* requests it asked again and was passed.
C24_Witness ==
    \E i, j \in DOMAIN responses :
        /\ i < j
        /\ responses[i].client_ip = responses[j].client_ip
        /\ responses[i].outcome = "HTTPException(429)"
        /\ responses[j].outcome = "call_next"

====
